---- MODULE Spec2Model ----
(***************************************************************************)
(* Model of the nanobank ledger core: Account rows, Transfer.do_transfer,  *)
(* the ScheduledPayment lifecycle (create_scheduled_transfer,              *)
(* create_transfer, cancel, delete), the queryset/manager of               *)
(* ScheduledPayment and the periodic task                                  *)
(* run_transfers_by_scheduled_payments.                                    *)
(*                                                                         *)
(* The database rows are balance, reserved_amount, transfers and payments. *)
(* The callers hold Account instances in memory (obj): do_transfer and     *)
(* create_scheduled_transfer test the fields of the instance they are      *)
(* given and then update the row with F() expressions, which never touch   *)
(* the instance; only refresh_from_db does.                                *)
(***************************************************************************)
EXTENDS Integers, Sequences, FiniteSets, TLC

\* ---------------------------------------------------------------- bounds
MaxBalance == 1
MaxAmount == 1
MaxPayments == 1
MaxTransfers == 1
MaxTime == 1
NumWorkers == 2
\* transactions in progress at the same time
NumTxns == 2
\* how far below zero the model follows reserved_amount
MaxOverRelease == 1
\* rows of the Transfer table in SpecSettle
MaxSettleTransfers == 2
\* rows of the ScheduledPayment table in SpecScheduleOnly
MaxSchedules == 2
\* rows of the ScheduledPayment table in SpecTick
MaxTickPayments == 2

\* the accounts of the fixture (setUp): account1 and account2
Account == {1, 2}
Amounts == (0 - 1)..MaxAmount
Dates == 0..MaxTime
Workers == 1..NumWorkers
Txns == 1..NumTxns

\* ------------------------------------------- ScheduledPayment.Status
PENDING == 0
DONE == 1
CANCELED == 2
FAILED == 3

VARIABLES balance, reserved_amount, obj, transfers, payments, now, queue,
          lastOp, initial, txn

vars == <<balance, reserved_amount, obj, transfers, payments, now, queue,
          lastOp, initial, txn>>

\* ------------------------------------------------------------- helpers
RECURSIVE SumOver(_, _)
SumOver(S, f) ==
    IF S = {} THEN 0
    ELSE LET x == CHOOSE y \in S : TRUE
         IN f[x] + SumOver(S \ {x}, f)

Pks == 1..Len(payments)

\* rows of the scheduled_payments table that are still stored
Rows == {pk \in Pks : payments[pk].in_db}

\* Account.get_max_transfer_amount, on an Account instance
get_max_transfer_amount(o) == o.balance - o.reserved_amount

\* Sum('amount') over the stored rows of the table ps that have
\* from_account a and status PENDING, or 0
PendingSum(ps, a) ==
    SumOver({pk \in DOMAIN ps : /\ ps[pk].in_db
                                /\ ps[pk].from_account = a
                                /\ ps[pk].status = PENDING},
            [pk \in DOMAIN ps |-> ps[pk].amount])

\* Account.get_reserved_amount_for_scheduled_payment
get_reserved_amount_for_scheduled_payment(a) == PendingSum(payments, a)

\* as pending, but the filter on_date__lte is dropped
pending_any_date(d) == {pk \in Rows : payments[pk].status = PENDING}

\* as pending, but with the filter on_date__lt
pending_before(d) == {pk \in Rows : payments[pk].status = PENDING
                                    /\ payments[pk].on_date < d}

\* ScheduledPaymentManager.pending(on_date__lte = d)
pending(d) == {pk \in Rows : payments[pk].status = PENDING
                             /\ payments[pk].on_date <= d}

\* ScheduledPaymentManager.canceled()
canceled == {pk \in Rows : payments[pk].status = CANCELED}

\* the last call and its outcome, as the caller sees it: the operation, the
\* exception raised ("ok" when none), the scheduled payment it was about (the
\* one returned, for create_scheduled_transfer; 0 when none) and, for the
\* calls that reserve or release, the reserved_amount of the source row when
\* the call started
Op(op, result, pk, pre) ==
    [op |-> op, result |-> result, pk |-> pk, pre |-> pre]

\* as MoveBalance, but both new balances computed from the values read
\* before the first UPDATE (instance arithmetic instead of F())
MoveBalance_from_read_values(b, f, t, amount) ==
    LET debited == [b EXCEPT ![f] = b[f] - amount]
    IN [debited EXCEPT ![t] = b[t] + amount]

\* F('balance') - amount on the row of f, then F('balance') + amount on
\* the row of t (two UPDATE statements, in this order)
MoveBalance(b, f, t, amount) ==
    LET debited == [b EXCEPT ![f] = @ - amount]
    IN [debited EXCEPT ![t] = @ + amount]

\* the two tests at the head of Transfer.do_transfer, on the balance the
\* given from_account instance carries
do_transfer_result(seen, amount) ==
    IF amount < 0 THEN "NegativeAmountException"
    ELSE IF seen < amount THEN "InsufficientBalance"
    ELSE "ok"

\* the two tests at the head of create_scheduled_transfer, on the given
\* from_account instance
create_scheduled_transfer_result(o, amount) ==
    IF amount < 0 THEN "NegativeAmountException"
    ELSE IF get_max_transfer_amount(o) < amount THEN "InsufficientBalance"
    ELSE "ok"

Stored(a) == [balance |-> balance[a], reserved_amount |-> reserved_amount[a]]

\* a connection with no transaction in progress
Idle == [pc |-> "idle", from_account |-> 0, to_account |-> 0, amount |-> 0,
         on_date |-> 0]

Init ==
    /\ balance \in [Account -> 0..MaxBalance]
    /\ reserved_amount = [a \in Account |-> 0]
    /\ obj = [a \in Account |-> Stored(a)]
    /\ transfers = <<>>
    /\ payments = <<>>
    /\ now = 0
    /\ queue = [w \in Workers |-> {}]
    /\ lastOp = Op("init", "ok", 0, 0)
    /\ initial = balance
    /\ txn = [i \in Txns |-> Idle]

\* as do_transfer, but the balance test is made after the two UPDATEs and
\* nothing rolls them back
do_transfer_tests_after_update(f, t, amount) ==
    LET r == do_transfer_result(obj[f].balance, amount) IN
    /\ lastOp' = Op("do_transfer", r, 0, 0)
    /\ IF r = "ok"
       THEN /\ balance' = MoveBalance(balance, f, t, amount)
            /\ transfers' = Append(transfers,
                   [from_account |-> f, to_account |-> t, amount |-> amount])
       ELSE IF r = "InsufficientBalance"
       THEN /\ balance' = MoveBalance(balance, f, t, amount)
            /\ UNCHANGED transfers
       ELSE UNCHANGED <<balance, transfers>>
    /\ UNCHANGED <<reserved_amount, obj, payments, now, queue, initial, txn>>

\* as do_transfer, but no Transfer row is created
do_transfer_without_record(f, t, amount) ==
    LET r == do_transfer_result(obj[f].balance, amount) IN
    /\ lastOp' = Op("do_transfer", r, 0, 0)
    /\ IF r = "ok"
       THEN balance' = MoveBalance(balance, f, t, amount)
       ELSE UNCHANGED balance
    /\ UNCHANGED <<reserved_amount, obj, transfers, payments, now, queue,
                   initial, txn>>

\* Transfer.do_transfer(from_account, to_account, amount), called with the
\* caller's Account instances
do_transfer(f, t, amount) ==
    LET r == do_transfer_result(obj[f].balance, amount) IN
    /\ lastOp' = Op("do_transfer", r, 0, 0)
    /\ IF r = "ok"
       THEN /\ balance' = MoveBalance(balance, f, t, amount)
            /\ transfers' = Append(transfers,
                   [from_account |-> f, to_account |-> t, amount |-> amount])
       ELSE UNCHANGED <<balance, transfers>>
    /\ UNCHANGED <<reserved_amount, obj, payments, now, queue, initial, txn>>

\* ScheduledPayment.create_scheduled_transfer(from_account, to_account,
\* amount, on_date), called with the caller's Account instances
create_scheduled_transfer(f, t, amount, on_date) ==
    LET r == create_scheduled_transfer_result(obj[f], amount) IN
    /\ IF r = "ok"
       THEN /\ reserved_amount' = [reserved_amount EXCEPT ![f] = @ + amount]
            /\ payments' = Append(payments,
                   [from_account |-> f, to_account |-> t, amount |-> amount,
                    status |-> PENDING, transfer |-> 0, on_date |-> on_date,
                    in_db |-> TRUE])
       ELSE UNCHANGED <<reserved_amount, payments>>
    /\ lastOp' = Op("create_scheduled_transfer", r,
                    IF r = "ok" THEN Len(payments) + 1 ELSE 0,
                    reserved_amount[f])
    /\ UNCHANGED <<balance, obj, transfers, now, queue, initial, txn>>

\* the body of ScheduledPayment.create_transfer on the payment pk, where
\* seen is the balance carried by self.from_account; name is the caller
create_transfer_body(name, pk, seen) ==
    LET p == payments[pk]
        f == p.from_account
        r == do_transfer_result(seen, p.amount)
        \* an exception other than InsufficientBalance leaves the atomic
        \* block and rolls it back: NegativeAmountException from
        \* do_transfer, DatabaseError from save(update_fields) on a row
        \* that is no longer stored
        raised == IF r = "NegativeAmountException" THEN r
                  ELSE IF ~p.in_db THEN "DatabaseError"
                  ELSE "ok"
    IN
    /\ lastOp' = Op(name, raised, pk, reserved_amount[f])
    /\ IF raised # "ok"
       THEN UNCHANGED <<balance, reserved_amount, transfers, payments>>
       ELSE IF r = "ok"
       THEN /\ balance' = MoveBalance(balance, f, p.to_account, p.amount)
            /\ transfers' = Append(transfers,
                   [from_account |-> f, to_account |-> p.to_account,
                    amount |-> p.amount])
            /\ reserved_amount' =
                   [reserved_amount EXCEPT ![f] = @ - p.amount]
            /\ payments' = [payments EXCEPT
                   ![pk].transfer = Len(transfers) + 1,
                   ![pk].status = DONE]
       ELSE /\ reserved_amount' =
                   [reserved_amount EXCEPT ![f] = @ - p.amount]
            /\ payments' = [payments EXCEPT ![pk].status = FAILED]
            /\ UNCHANGED <<balance, transfers>>

\* scheduled_payment.create_transfer() called by a client. The instance it
\* holds was either returned by create_scheduled_transfer, and then its
\* from_account is the caller's own Account instance (cached), or was loaded
\* from the table, and then from_account is read from the row at the call.
create_transfer(pk, cached) ==
    /\ pk \in Pks
    /\ create_transfer_body("create_transfer", pk,
           IF cached THEN obj[payments[pk].from_account].balance
           ELSE balance[payments[pk].from_account])
    /\ UNCHANGED <<obj, now, queue, initial, txn>>

\* as cancel_body, but the reservation is not released
cancel_body_keeps_reservation(name, pk) ==
    LET p == payments[pk]
        f == p.from_account
        raised == IF ~p.in_db THEN "DatabaseError" ELSE "ok"
    IN
    /\ lastOp' = Op(name, raised, pk, reserved_amount[f])
    /\ IF raised # "ok"
       THEN UNCHANGED payments
       ELSE payments' = [payments EXCEPT ![pk].status = CANCELED]
    /\ UNCHANGED <<balance, reserved_amount, obj, transfers, now, queue,
                   initial, txn>>

\* the body of ScheduledPayment.cancel
cancel_body(name, pk) ==
    LET p == payments[pk]
        f == p.from_account
        raised == IF ~p.in_db THEN "DatabaseError" ELSE "ok"
    IN
    /\ lastOp' = Op(name, raised, pk, reserved_amount[f])
    /\ IF raised # "ok"
       THEN UNCHANGED <<reserved_amount, payments>>
       ELSE /\ reserved_amount' =
                   [reserved_amount EXCEPT ![f] = @ - p.amount]
            /\ payments' = [payments EXCEPT ![pk].status = CANCELED]
    /\ UNCHANGED <<balance, obj, transfers, now, queue, initial, txn>>

\* scheduled_payment.cancel()
cancel(pk) ==
    /\ pk \in Pks
    /\ cancel_body("cancel", pk)

\* as delete, but Model.delete is not overridden: the row is removed
delete_removes_row(pk) ==
    /\ pk \in Rows
    /\ lastOp' = Op("delete", "ok", pk,
                    reserved_amount[payments[pk].from_account])
    /\ payments' = [payments EXCEPT ![pk].in_db = FALSE]
    /\ UNCHANGED <<balance, reserved_amount, obj, transfers, now, queue,
                   initial, txn>>

\* scheduled_payment.delete(): calls self.cancel()
delete(pk) ==
    /\ pk \in Pks
    /\ cancel_body("delete", pk)

\* the rows a queryset of ScheduledPayment selects: objects.all(),
\* objects.pending(on_date__lte = d), objects.canceled()
QuerySets == {<<"all", 0>>, <<"canceled", 0>>} \cup
             {<<"pending", d>> : d \in Dates}

Selected(q) ==
    IF q[1] = "all" THEN Rows
    ELSE IF q[1] = "pending" THEN pending(q[2])
    ELSE canceled

\* objects.all() is a ScheduledPaymentQuerySet (get_queryset), whose delete
\* raises; pending() and canceled() build theirs with super().get_queryset(),
\* the plain QuerySet, whose delete removes the selected rows
RaisesOnDelete(q) == q[1] = "all"

\* <queryset>.delete()
queryset_delete(q) ==
    /\ IF RaisesOnDelete(q)
       THEN /\ lastOp' = Op("queryset_delete", "DeleteEntityException", 0, 0)
            /\ UNCHANGED payments
       ELSE /\ Selected(q) # {}
            /\ lastOp' = Op("queryset_delete", "ok", 0, 0)
            /\ payments' = [pk \in Pks |->
                   IF pk \in Selected(q)
                   THEN [payments[pk] EXCEPT !.in_db = FALSE]
                   ELSE payments[pk]]
    /\ UNCHANGED <<balance, reserved_amount, obj, transfers, now, queue,
                   initial, txn>>

\* account.refresh_from_db() on the caller's Account instance
refresh_from_db(a) ==
    /\ obj[a] # Stored(a)
    /\ obj' = [obj EXCEPT ![a] = Stored(a)]
    /\ lastOp' = Op("refresh_from_db", "ok", 0, 0)
    /\ UNCHANGED <<balance, reserved_amount, transfers, payments, now, queue,
                   initial, txn>>

\* run_transfers_by_scheduled_payments, lines 16-19: the time is read and the
\* queryset pending(on_date__lte = on_date) is evaluated when the loop starts
run_transfers_by_scheduled_payments(w) ==
    /\ queue[w] = {}
    /\ pending(now) # {}
    /\ queue' = [queue EXCEPT ![w] = pending(now)]
    /\ lastOp' = Op("run_transfers_by_scheduled_payments", "ok", 0, 0)
    /\ UNCHANGED <<balance, reserved_amount, obj, transfers, payments, now,
                   initial, txn>>

\* one iteration of the loop of run_transfers_by_scheduled_payments: the
\* fetched instance loads its from_account from the row when create_transfer
\* reads it; an exception leaving create_transfer ends the task
loop_create_transfer(w, pk) ==
    /\ pk \in queue[w]
    /\ create_transfer_body("loop_create_transfer", pk,
           balance[payments[pk].from_account])
    /\ queue' = [queue EXCEPT ![w] =
           IF lastOp'.result = "ok" THEN @ \ {pk} ELSE {}]
    /\ UNCHANGED <<obj, now, initial, txn>>

\* one iteration of the loop in which the database raises (a lock timeout,
\* a deadlock it resolved, a lost connection) inside create_transfer: the
\* atomic block is rolled back and, the loop having no try, the exception
\* ends the task
loop_create_transfer_raises(w, pk) ==
    /\ pk \in queue[w]
    /\ lastOp' = Op("loop_create_transfer", "OperationalError", pk,
                    reserved_amount[payments[pk].from_account])
    /\ queue' = [queue EXCEPT ![w] = {}]
    /\ UNCHANGED <<balance, reserved_amount, obj, transfers, payments, now,
                   initial, txn>>

\* the clock that datetime.now() reads moves on
advance_time ==
    /\ now < MaxTime
    /\ now' = now + 1
    /\ lastOp' = Op("advance_time", "ok", 0, 0)
    /\ UNCHANGED <<balance, reserved_amount, obj, transfers, payments, queue,
                   initial, txn>>

\* ---------------------------------------------------------------------
\* Transactions statement by statement. A connection i runs one call at a
\* time; txn[i].pc is the statement it executes next. A row of accounts is
\* locked by the first UPDATE ... select_for_update() a transaction makes
\* on it and stays locked until the transaction ends; what the transaction
\* wrote becomes the stored value when it commits.
Holds(i) ==
    LET x == txn[i] IN
    IF x.pc = "update_to" THEN {x.from_account}
    ELSE IF x.pc = "create" THEN {x.from_account, x.to_account}
    ELSE IF x.pc = "insert" THEN {x.from_account}
    ELSE {}

LockedByOther(i, a) == \E j \in Txns \ {i} : a \in Holds(j)

\* the row whose lock connection i needs for its next statement, or 0
NeedsLock(i) ==
    LET x == txn[i] IN
    IF x.pc \in {"update_from", "reserve"} THEN x.from_account
    ELSE IF x.pc = "update_to" THEN x.to_account
    ELSE 0

\* connection i waits for a row lock that connection j holds
WaitsFor(i, j) == i # j /\ NeedsLock(i) \in Holds(j)

\* do_transfer, lines 26-30: the tests, on Account instances the request
\* has just loaded
do_transfer_tests(i, f, t, amount) ==
    LET r == do_transfer_result(balance[f], amount) IN
    /\ txn[i] = Idle
    /\ IF r = "ok"
       THEN /\ txn' = [txn EXCEPT ![i] =
                   [pc |-> "update_from", from_account |-> f,
                    to_account |-> t, amount |-> amount, on_date |-> 0]]
            /\ UNCHANGED lastOp
       ELSE /\ lastOp' = Op("do_transfer", r, 0, 0)
            /\ UNCHANGED txn
    /\ UNCHANGED <<balance, reserved_amount, obj, transfers, payments, now,
                   queue, initial>>

\* do_transfer, lines 34-35: the UPDATE of the row of from_account, which
\* waits while another transaction holds the lock of that row
do_transfer_update_from(i) ==
    /\ txn[i].pc = "update_from"
    /\ ~LockedByOther(i, txn[i].from_account)
    /\ txn' = [txn EXCEPT ![i].pc = "update_to"]
    /\ UNCHANGED <<balance, reserved_amount, obj, transfers, payments, now,
                   queue, lastOp, initial>>

\* do_transfer, lines 36-37: the UPDATE of the row of to_account
do_transfer_update_to(i) ==
    /\ txn[i].pc = "update_to"
    /\ ~LockedByOther(i, txn[i].to_account)
    /\ txn' = [txn EXCEPT ![i].pc = "create"]
    /\ UNCHANGED <<balance, reserved_amount, obj, transfers, payments, now,
                   queue, lastOp, initial>>

\* do_transfer, lines 39-43, and the end of the atomic block: the Transfer
\* row is inserted and the transaction commits
do_transfer_create(i) ==
    LET x == txn[i] IN
    /\ x.pc = "create"
    /\ balance' = MoveBalance(balance, x.from_account, x.to_account,
                              x.amount)
    /\ transfers' = Append(transfers,
           [from_account |-> x.from_account, to_account |-> x.to_account,
            amount |-> x.amount])
    /\ txn' = [txn EXCEPT ![i] = Idle]
    /\ lastOp' = Op("do_transfer", "ok", 0, 0)
    /\ UNCHANGED <<reserved_amount, obj, payments, now, queue, initial>>

\* create_scheduled_transfer, lines 82-86: the tests, on Account instances
\* the request has just loaded
create_scheduled_transfer_tests(i, f, t, amount, on_date) ==
    LET r == create_scheduled_transfer_result(Stored(f), amount) IN
    /\ txn[i] = Idle
    /\ IF r = "ok"
       THEN /\ txn' = [txn EXCEPT ![i] =
                   [pc |-> "reserve", from_account |-> f, to_account |-> t,
                    amount |-> amount, on_date |-> on_date]]
            /\ UNCHANGED lastOp
       ELSE /\ lastOp' = Op("create_scheduled_transfer", r, 0,
                            reserved_amount[f])
            /\ UNCHANGED txn
    /\ UNCHANGED <<balance, reserved_amount, obj, transfers, payments, now,
                   queue, initial>>

\* create_scheduled_transfer, lines 88-89: the UPDATE of the row of
\* from_account
create_scheduled_transfer_update(i) ==
    /\ txn[i].pc = "reserve"
    /\ ~LockedByOther(i, txn[i].from_account)
    /\ txn' = [txn EXCEPT ![i].pc = "insert"]
    /\ UNCHANGED <<balance, reserved_amount, obj, transfers, payments, now,
                   queue, lastOp, initial>>

\* create_scheduled_transfer, lines 90-93, and the end of the atomic block
create_scheduled_transfer_create(i) ==
    LET x == txn[i] IN
    /\ x.pc = "insert"
    /\ reserved_amount' =
           [reserved_amount EXCEPT ![x.from_account] = @ + x.amount]
    /\ payments' = Append(payments,
           [from_account |-> x.from_account, to_account |-> x.to_account,
            amount |-> x.amount, status |-> PENDING, transfer |-> 0,
            on_date |-> x.on_date, in_db |-> TRUE])
    /\ txn' = [txn EXCEPT ![i] = Idle]
    /\ lastOp' = Op("create_scheduled_transfer", "ok", Len(payments) + 1,
                    reserved_amount[x.from_account])
    /\ UNCHANGED <<balance, obj, transfers, now, queue, initial>>

\* ------------------------------------------------- bounds of the search
\* a call that would add a Transfer row is explored while the table has
\* fewer than cap rows
RoomForTransfer(cap, seen, amount) ==
    do_transfer_result(seen, amount) = "ok" => Len(transfers) < cap

\* a call that would add a ScheduledPayment row, likewise
RoomForPayment(cap, f, amount) ==
    create_scheduled_transfer_result(obj[f], amount) = "ok"
        => Len(payments) < cap

\* a release of the reservation of pk is explored down to -MaxOverRelease
RoomForRelease(pk) ==
    reserved_amount[payments[pk].from_account] - payments[pk].amount
        >= 0 - MaxOverRelease

\* the balance self.from_account carries in create_transfer
SeenBalance(pk, cached) ==
    IF cached THEN obj[payments[pk].from_account].balance
    ELSE balance[payments[pk].from_account]

CallDoTransfer ==
    \E f, t \in Account, amount \in Amounts :
        /\ RoomForTransfer(MaxTransfers, obj[f].balance, amount)
        /\ do_transfer(f, t, amount)

CallSchedule ==
    \E f, t \in Account, amount \in Amounts, d \in Dates :
        /\ RoomForPayment(MaxPayments, f, amount)
        /\ create_scheduled_transfer(f, t, amount, d)

CallCreateTransfer ==
    \E pk \in Pks, cached \in BOOLEAN :
        /\ RoomForTransfer(MaxTransfers, SeenBalance(pk, cached),
                           payments[pk].amount)
        /\ RoomForRelease(pk)
        /\ create_transfer(pk, cached)

CallCancel == \E pk \in Pks : RoomForRelease(pk) /\ cancel(pk)

CallDelete == \E pk \in Pks : RoomForRelease(pk) /\ delete(pk)

CallQuerySetDelete == \E q \in QuerySets : queryset_delete(q)

CallRefresh == \E a \in Account : refresh_from_db(a)

TaskStart == \E w \in Workers : run_transfers_by_scheduled_payments(w)

TaskLoop ==
    \E w \in Workers, pk \in Pks :
        /\ RoomForTransfer(MaxTransfers, SeenBalance(pk, FALSE),
                           payments[pk].amount)
        /\ RoomForRelease(pk)
        /\ loop_create_transfer(w, pk)

\* clients and the periodic task; each call and each loop iteration is one
\* transaction
Next ==
    \/ CallDoTransfer
    \/ CallSchedule
    \/ CallCreateTransfer
    \/ CallCancel
    \/ CallDelete
    \/ CallRefresh
    \/ TaskStart
    \/ TaskLoop

Spec == Init /\ [][Next]_vars

\* ---------------------------------------------------------------------
\* Correct use: every Account instance handed to a call carries the values
\* of its row, and create_transfer, cancel and delete are only called on
\* stored PENDING payments.
Fresh(a) == obj[a] = Stored(a)

IsPending(pk) == pk \in Rows /\ payments[pk].status = PENDING

CorrectDoTransfer ==
    \E f, t \in Account, amount \in Amounts :
        /\ Fresh(f)
        /\ RoomForTransfer(MaxTransfers, obj[f].balance, amount)
        /\ do_transfer(f, t, amount)

CorrectSchedule ==
    \E f, t \in Account, amount \in Amounts, d \in Dates :
        /\ Fresh(f)
        /\ RoomForPayment(MaxPayments, f, amount)
        /\ create_scheduled_transfer(f, t, amount, d)

CorrectCreateTransfer ==
    \E pk \in Pks :
        /\ IsPending(pk)
        /\ RoomForTransfer(MaxTransfers, SeenBalance(pk, FALSE),
                           payments[pk].amount)
        /\ create_transfer(pk, FALSE)

CorrectCancel == \E pk \in Pks : IsPending(pk) /\ cancel(pk)

CorrectDelete == \E pk \in Pks : IsPending(pk) /\ delete(pk)

CorrectTaskLoop ==
    \E w \in Workers, pk \in Pks :
        /\ IsPending(pk)
        /\ RoomForTransfer(MaxTransfers, SeenBalance(pk, FALSE),
                           payments[pk].amount)
        /\ loop_create_transfer(w, pk)

NextCorrectUse ==
    \/ CorrectDoTransfer
    \/ CorrectSchedule
    \/ CorrectCreateTransfer
    \/ CorrectCancel
    \/ CorrectDelete
    \/ CallRefresh
    \/ TaskStart
    \/ CorrectTaskLoop

SpecCorrectUse == Init /\ [][NextCorrectUse]_vars

\* ---------------------------------------------------------------------
\* Clients that transfer, schedule and settle, with room for a second
\* Transfer row.
SettleDoTransfer ==
    \E f, t \in Account, amount \in Amounts :
        /\ RoomForTransfer(MaxSettleTransfers, obj[f].balance, amount)
        /\ do_transfer(f, t, amount)

SettleCreateTransfer ==
    \E pk \in Pks, cached \in BOOLEAN :
        /\ RoomForTransfer(MaxSettleTransfers, SeenBalance(pk, cached),
                           payments[pk].amount)
        /\ RoomForRelease(pk)
        /\ create_transfer(pk, cached)

NextSettle ==
    \/ SettleDoTransfer
    \/ CallSchedule
    \/ SettleCreateTransfer
    \/ CallRefresh

SpecSettle == Init /\ [][NextSettle]_vars

\* ---------------------------------------------------------------------
\* A client that only schedules, always with the Account instances it
\* created at the start.
NextScheduleOnly ==
    \E f, t \in Account, amount \in Amounts, d \in Dates :
        /\ RoomForPayment(MaxSchedules, f, amount)
        /\ create_scheduled_transfer(f, t, amount, d)

SpecScheduleOnly == Init /\ [][NextScheduleOnly]_vars

\* ---------------------------------------------------------------------
\* Clients that schedule, cancel, delete and delete querysets.
NextDelete ==
    \/ CallSchedule
    \/ CallCancel
    \/ CallDelete
    \/ CallQuerySetDelete

SpecDelete == Init /\ [][NextDelete]_vars

\* ---------------------------------------------------------------------
\* Clients that transfer, with one scheduled payment outstanding.
FirstSchedule ==
    \E f, t \in Account, amount \in Amounts, d \in Dates :
        /\ payments = <<>>
        /\ create_scheduled_transfer(f, t, amount, d)

NextTransfer ==
    \/ CallDoTransfer
    \/ FirstSchedule
    \/ CallRefresh

SpecTransfer == Init /\ [][NextTransfer]_vars

\* ---------------------------------------------------------------------
\* Clients that schedule, cancel and delete.
NextCancel ==
    \/ CallSchedule
    \/ CallCancel
    \/ CallDelete

SpecCancel == Init /\ [][NextCancel]_vars

\* ---------------------------------------------------------------------
\* The periodic task and the clock, with clients that schedule and cancel
\* and room for a second scheduled payment and a second Transfer row.
TickSchedule ==
    \E f, t \in Account, amount \in Amounts, d \in Dates :
        /\ RoomForPayment(MaxTickPayments, f, amount)
        /\ create_scheduled_transfer(f, t, amount, d)

TickLoop ==
    \E w \in Workers, pk \in Pks :
        /\ RoomForTransfer(MaxSettleTransfers, SeenBalance(pk, FALSE),
                           payments[pk].amount)
        /\ RoomForRelease(pk)
        /\ loop_create_transfer(w, pk)

NextTick ==
    \/ TickSchedule
    \/ CallCancel
    \/ TaskStart
    \/ TickLoop
    \/ advance_time

SpecTick == Init /\ [][NextTick]_vars

\* ---------------------------------------------------------------------
\* Requests that transfer at the same time, each on its own connection.
InProgress == Cardinality({i \in Txns : txn[i] # Idle})

BeginDoTransfer ==
    \E i \in Txns, f, t \in Account, amount \in Amounts :
        /\ do_transfer_result(balance[f], amount) = "ok"
               => Len(transfers) + InProgress < MaxSettleTransfers
        /\ do_transfer_tests(i, f, t, amount)

StepUpdateFrom == \E i \in Txns : do_transfer_update_from(i)

StepUpdateTo == \E i \in Txns : do_transfer_update_to(i)

StepCreateTransfer == \E i \in Txns : do_transfer_create(i)

NextConcurrentTransfers ==
    \/ BeginDoTransfer
    \/ StepUpdateFrom
    \/ StepUpdateTo
    \/ StepCreateTransfer

SpecConcurrentTransfers == Init /\ [][NextConcurrentTransfers]_vars

\* ---------------------------------------------------------------------
\* Requests that schedule at the same time, each on its own connection.
BeginSchedule ==
    \E i \in Txns, f, t \in Account, amount \in Amounts, d \in Dates :
        /\ create_scheduled_transfer_result(Stored(f), amount) = "ok"
               => Len(payments) + InProgress < MaxSchedules
        /\ create_scheduled_transfer_tests(i, f, t, amount, d)

StepReserve == \E i \in Txns : create_scheduled_transfer_update(i)

StepCreateScheduled == \E i \in Txns : create_scheduled_transfer_create(i)

NextConcurrentSchedules ==
    \/ BeginSchedule
    \/ StepReserve
    \/ StepCreateScheduled

SpecConcurrentSchedules == Init /\ [][NextConcurrentSchedules]_vars

\* ---------------------------------------------------------------------
\* Runs of the periodic task that overlap, with clients that schedule and
\* that cancel PENDING payments only.
NextOverlap ==
    \/ TickSchedule
    \/ CorrectCancel
    \/ TaskStart
    \/ TickLoop

SpecOverlap == Init /\ [][NextOverlap]_vars

\* ---------------------------------------------------------------------
\* The periodic task on a database that can fail, with clients that
\* schedule.
TickLoopRaises ==
    \E w \in Workers, pk \in Pks : loop_create_transfer_raises(w, pk)

NextTickErrors ==
    \/ TickSchedule
    \/ TaskStart
    \/ TickLoop
    \/ TickLoopRaises

SpecTickErrors == Init /\ [][NextTickErrors]_vars

\* ---------------------------------------------------------------------
\* The periodic task as celery runs it: a run starts again and again
\* (run_every = 60), a run that has started goes through its loop, and the
\* clock moves on. Clients schedule, and cancel PENDING payments.
LiveLoop ==
    \E w \in Workers, pk \in Pks : loop_create_transfer(w, pk)

NextLive ==
    \/ CallSchedule
    \/ CorrectCancel
    \/ TaskStart
    \/ LiveLoop
    \/ advance_time

SpecLive ==
    /\ Init
    /\ [][NextLive]_vars
    /\ WF_vars(TaskStart)
    /\ WF_vars(LiveLoop)
    /\ WF_vars(advance_time)

\* ---------------------------------------------------------------------
\* Clients that transfer and settle, with one scheduled payment
\* outstanding.
NextLedger ==
    \/ CallDoTransfer
    \/ FirstSchedule
    \/ CallCreateTransfer
    \/ CallRefresh

SpecLedger == Init /\ [][NextLedger]_vars

\* ------------------------------------------------------------ vocabulary
Terminal == {DONE, CANCELED, FAILED}

spendable(a) == balance[a] - reserved_amount[a]

Total(b) == SumOver(Account, b)

\* the sum of amount over the Transfer rows that have a as to_account
Received(a) ==
    SumOver({i \in 1..Len(transfers) : transfers[i].to_account = a},
            [i \in 1..Len(transfers) |-> transfers[i].amount])

\* the sum of amount over the Transfer rows that have a as from_account
Sent(a) ==
    SumOver({i \in 1..Len(transfers) : transfers[i].from_account = a},
            [i \in 1..Len(transfers) |-> transfers[i].amount])

\* the payment pk is one that objects.pending(on_date__lte = now) selects
DuePending(pk) ==
    /\ pk \in Rows
    /\ payments[pk].status = PENDING
    /\ payments[pk].on_date <= now

\* ===================================================================== C1
\* C1: in every reachable state, whatever calls and loop iterations were
\* made and whether they were accepted or rejected, the sum of balance over
\* all accounts equals the initial sum (a transfer from an account to itself
\* included).
Conservation == Total(balance) = Total(initial)

ConservationWitness ==
    /\ balance # initial
    /\ \E i \in 1..Len(transfers) :
           /\ transfers[i].amount > 0
           /\ transfers[i].from_account # transfers[i].to_account

\* ===================================================================== C2
\* C2: for every account the stored reserved_amount equals the sum of amount
\* over its scheduled payments with status PENDING (0 when there are none).
ReservedEqualsPendingSum ==
    \A a \in Account :
        reserved_amount[a] = get_reserved_amount_for_scheduled_payment(a)

\* ===================================================================== C3
\* C3: under correct use (accepted calls, create_transfer and cancel only on
\* PENDING payments) balance - reserved_amount is never negative for any
\* account.
SpendableNeverNegative == \A a \in Account : spendable(a) >= 0

\* ===================================================================== C4
\* C4: create_transfer on a PENDING payment of amount a from F to T: if the
\* balance of F is at least a, the status becomes DONE, a new Transfer
\* (F, T, a) is linked to the payment and a moves from F to T; otherwise
\* the status becomes FAILED, no Transfer is created or linked and no balance
\* changes. Either way reserved_amount of F goes down by a.
SettleOutcome ==
    [][(/\ lastOp'.op \in {"create_transfer", "loop_create_transfer"}
        /\ lastOp'.pk \in Rows
        /\ payments[lastOp'.pk].status = PENDING)
       => LET pk == lastOp'.pk
              p == payments[pk]
              F == p.from_account
              T == p.to_account
              a == p.amount
          IN /\ reserved_amount' = [reserved_amount EXCEPT ![F] = @ - a]
             /\ IF balance[F] >= a
                THEN /\ payments'[pk].status = DONE
                     /\ Len(transfers') = Len(transfers) + 1
                     /\ payments'[pk].transfer = Len(transfers')
                     /\ transfers'[Len(transfers')] =
                            [from_account |-> F, to_account |-> T,
                             amount |-> a]
                     /\ balance' =
                            [[balance EXCEPT ![F] = @ - a]
                                EXCEPT ![T] = @ + a]
                ELSE /\ payments'[pk].status = FAILED
                     /\ payments'[pk].transfer = 0
                     /\ UNCHANGED <<balance, transfers>>]_vars

\* ===================================================================== C5
\* C5: a do_transfer that raises NegativeAmountException or
\* InsufficientBalance leaves every balance, every reserved_amount, the
\* Transfer rows and every scheduled payment as they were.
RejectedTransferHasNoEffect ==
    [][(/\ lastOp'.op = "do_transfer"
        /\ lastOp'.result \in {"NegativeAmountException",
                               "InsufficientBalance"})
       => UNCHANGED <<balance, reserved_amount, transfers, payments>>]_vars

RejectedTransferWitness ==
    /\ lastOp.op = "do_transfer"
    /\ lastOp.result = "InsufficientBalance"
    /\ payments # <<>>

\* ===================================================================== C6
\* C6: whatever sequence of create_scheduled_transfer calls is made on an
\* account and nothing else, the sum of the accepted PENDING amounts never
\* exceeds its balance: a call whose amount exceeds the stored
\* balance - reserved_amount is rejected.
NoOverCommitment ==
    \A a \in Account :
        get_reserved_amount_for_scheduled_payment(a) <= balance[a]

\* ===================================================================== C7
\* C7: a scheduled payment whose status is DONE, CANCELED or FAILED keeps
\* that status, and a cancel, delete or create_transfer on it changes no
\* balance, creates no Transfer and leaves reserved_amount alone.
TerminalIsFinal ==
    [][\A pk \in Pks :
          payments[pk].status \in Terminal
          => /\ payments'[pk].status = payments[pk].status
             /\ (lastOp'.pk = pk /\ lastOp'.op \in
                    {"cancel", "delete", "create_transfer",
                     "loop_create_transfer"})
                => UNCHANGED <<balance, transfers, reserved_amount>>]_vars

\* ===================================================================== C8
\* C8: delete() on any queryset of ScheduledPayment raises and removes
\* nothing: every row ever created is still stored.
RowsArePermanent == Rows = Pks

\* ===================================================================== C9
\* C9: delete() of a stored PENDING scheduled payment does what cancel()
\* does: the row stays, its status becomes CANCELED, the reserved_amount of
\* the source account goes down by the amount of the payment (and equals the
\* sum of its PENDING payments again if it did before), no balance changes
\* and no Transfer is created.
DeleteCancels ==
    [][(/\ lastOp'.op = "delete"
        /\ lastOp'.pk \in Rows
        /\ payments[lastOp'.pk].status = PENDING)
       => LET pk == lastOp'.pk
              p == payments[pk]
              f == p.from_account
          IN /\ lastOp'.result = "ok"
             /\ payments' = [payments EXCEPT ![pk].status = CANCELED]
             /\ payments'[pk].in_db
             /\ reserved_amount' =
                    [reserved_amount EXCEPT ![f] = @ - p.amount]
             /\ (reserved_amount[f] =
                     get_reserved_amount_for_scheduled_payment(f)
                 => reserved_amount'[f] = PendingSum(payments', f))
             /\ UNCHANGED <<balance, transfers>>]_vars

DeleteWitness ==
    /\ lastOp.op = "delete"
    /\ lastOp.result = "ok"
    /\ LET p == payments[lastOp.pk]
       IN /\ p.in_db
          /\ p.status = CANCELED
          /\ p.amount > 0
          /\ lastOp.pre = p.amount
          /\ reserved_amount[p.from_account] = 0
          /\ get_reserved_amount_for_scheduled_payment(p.from_account) = 0

\* ==================================================================== C10
\* C10: an accepted create_scheduled_transfer changes no balance and creates
\* no Transfer, and a cancel() of that payment that follows it puts the
\* reserved_amount of the source account back to the value it had before the
\* payment was scheduled, again without changing a balance or creating a
\* Transfer.
ScheduleCancelRoundTrip ==
    [][/\ (/\ lastOp'.op = "create_scheduled_transfer"
           /\ lastOp'.result = "ok")
          => UNCHANGED <<balance, transfers>>
       /\ (/\ lastOp.op = "create_scheduled_transfer"
           /\ lastOp.result = "ok"
           /\ lastOp'.op = "cancel"
           /\ lastOp'.pk = lastOp.pk)
          => /\ lastOp'.result = "ok"
             /\ reserved_amount' =
                    [reserved_amount EXCEPT
                        ![payments[lastOp.pk].from_account] = lastOp.pre]
             /\ UNCHANGED <<balance, transfers>>]_vars

RoundTripWitness ==
    /\ lastOp.op = "cancel"
    /\ lastOp.result = "ok"
    /\ transfers = <<>>
    /\ LET p == payments[lastOp.pk]
       IN /\ p.status = CANCELED
          /\ p.amount > 0
          /\ lastOp.pre = p.amount
          /\ reserved_amount[p.from_account] = 0

\* ==================================================================== C11
\* C11: every Transfer row and every ScheduledPayment row has amount > 0:
\* do_transfer and create_scheduled_transfer create no row for an amount
\* that is zero or negative.
AmountsArePositive ==
    /\ \A i \in 1..Len(transfers) : transfers[i].amount > 0
    /\ \A pk \in Pks : payments[pk].amount > 0


\* ==================================================================== C12
\* C12: a run of run_transfers_by_scheduled_payments fetches exactly the
\* stored payments that are PENDING with on_date <= the time read when it
\* starts, and afterwards only takes payments out of what it fetched: a
\* payment it did not fetch (a PENDING one with a later on_date, a DONE,
\* CANCELED or FAILED one) is never settled by it, and an iteration changes
\* no payment other than the fetched one it settles, no reserved_amount
\* other than that of its source account and no balance other than those of
\* its two accounts.
TickSelectsDuePending ==
    [][/\ \A w \in Workers :
            IF lastOp'.op = "run_transfers_by_scheduled_payments"
               /\ queue'[w] # queue[w]
            THEN queue'[w] = {pk \in Rows : /\ payments[pk].status = PENDING
                                            /\ payments[pk].on_date <= now}
            ELSE queue'[w] \subseteq queue[w]
       /\ lastOp'.op = "run_transfers_by_scheduled_payments"
          => UNCHANGED <<balance, reserved_amount, transfers, payments>>
       /\ lastOp'.op = "loop_create_transfer"
          => LET pk == lastOp'.pk
                 p == payments[pk]
             IN /\ \E w \in Workers : pk \in queue[w]
                /\ \A q \in Pks \ {pk} : payments'[q] = payments[q]
                /\ \A a \in Account \ {p.from_account} :
                       reserved_amount'[a] = reserved_amount[a]
                /\ \A a \in Account \ {p.from_account, p.to_account} :
                       balance'[a] = balance[a]]_vars

\* a run has settled a due payment and left alone a PENDING payment of the
\* same source account whose on_date is later than the present time
TickWitness ==
    /\ lastOp.op = "loop_create_transfer"
    /\ lastOp.result = "ok"
    /\ payments[lastOp.pk].status = DONE
    /\ payments[lastOp.pk].amount > 0
    /\ \E q \in Pks :
           /\ payments[q].status = PENDING
           /\ payments[q].on_date > now
           /\ payments[q].from_account = payments[lastOp.pk].from_account
           /\ \A w \in Workers : q \notin queue[w]


\* ==================================================================== C13
\* C13: the balance test of a transfer is made on the stored row at the
\* moment of the debit, so that, starting from balances that are not
\* negative, no sequence of transfers, also of transfers made with an
\* Account instance that was loaded before earlier transfers were committed,
\* leaves a balance negative.
BalanceNeverNegative == \A a \in Account : balance[a] >= 0


\* ==================================================================== C14
\* C14: when create_scheduled_transfer calls run at the same time on one
\* source account, and nothing else runs, the test and the increase of
\* reserved_amount are one atomic step: the stored reserved_amount of an
\* account never exceeds its balance, so two calls that each fit alone but
\* not together are never both accepted.
ReservedWithinBalance ==
    \A a \in Account : reserved_amount[a] <= balance[a]

\* ==================================================================== C15
\* C15: row locks are taken in one order over the accounts whatever the
\* direction of the transfer, so no state is reached where each of two
\* transactions waits for a row lock the other holds.
NoLockCycle == ~ \E i, j \in Txns : WaitsFor(i, j) /\ WaitsFor(j, i)


\* ==================================================================== C16
\* C16: a scheduled payment is settled at most once, whatever the
\* interleaving: when a run of the task comes to a payment it fetched and
\* the payment is no longer PENDING (a run that overlaps has settled it, or
\* a client has canceled it since the fetch), it moves no money, creates no
\* Transfer, releases no reservation and leaves the status (CANCELED, DONE
\* or FAILED) as it is.
SettledAtMostOnce ==
    [][(/\ lastOp'.op = "loop_create_transfer"
        /\ payments[lastOp'.pk].status # PENDING)
       => UNCHANGED <<balance, transfers, reserved_amount, payments>>]_vars


\* ==================================================================== C17
\* C17: in a run of the task the outcome of settling one fetched payment
\* never takes the other fetched payments away from the run: after an
\* iteration, FAILED included, every other payment the run fetched is still
\* to be settled by it, and an iteration that fails in any other way leaves
\* its payment PENDING with its reservation, every balance and the Transfer
\* rows as they were.
PerItemIsolation ==
    [][lastOp'.op = "loop_create_transfer"
       => /\ \A w \in Workers : queue[w] \ {lastOp'.pk} \subseteq queue'[w]
          /\ lastOp'.result # "ok"
             => UNCHANGED <<balance, reserved_amount, transfers,
                            payments>>]_vars


\* ==================================================================== C18
\* C18: when runs of the task keep starting, started runs keep going and
\* the clock moves on, every scheduled payment that is PENDING with its
\* on_date reached leaves PENDING in the end: it becomes DONE or FAILED, or
\* CANCELED when a client cancels it first.
DuePaymentsAreSettled ==
    \A pk \in 1..MaxPayments :
        DuePending(pk) ~> (pk \in Pks /\ payments[pk].status \in Terminal)

\* the task has settled a payment whose on_date the clock had to reach
SettledWhenDueWitness ==
    /\ lastOp.op = "loop_create_transfer"
    /\ lastOp.result = "ok"
    /\ payments[lastOp.pk].on_date = MaxTime
    /\ payments[lastOp.pk].amount > 0
    /\ payments[lastOp.pk].status = DONE
    /\ now = MaxTime


LinkIffDone ==
    \A pk \in Pks :
        LET p == payments[pk] IN
        /\ p.transfer # 0 <=> p.status = DONE
        /\ p.transfer # 0
           => /\ p.transfer \in 1..Len(transfers)
              /\ transfers[p.transfer] =
                     [from_account |-> p.from_account,
                      to_account |-> p.to_account, amount |-> p.amount]
====
